---- MODULE Spec2Model ----
(***************************************************************************)
(* MAVLink link of the ground station: MavlinkManager (connection and      *)
(* telemetry loop, src/mavlink_manager.py) and MissionUploader (the        *)
(* clear / count / item / verify handshake, src/mission_upload.py).        *)
(*                                                                         *)
(* Threads: the telemetry loop thread(s) started by connect, and one       *)
(* thread per upload_mission call.  Both call recv_match on the same       *)
(* connection object; a message delivered by the transport is returned to  *)
(* whichever thread reads it.  connect and disconnect run on the caller's  *)
(* thread.                                                                 *)
(*                                                                         *)
(* Units.  Python floats are modelled in fixed point:                      *)
(*   lat, lon      degrees            (message: degrees * 1e7)             *)
(*   alt           metres             (message: millimetres)               *)
(*   pitch/roll/yaw 1e-4 degrees      (message: radians)                   *)
(*   voltage       microvolts         (message: millivolts)                *)
(*   current       microamperes       (message: centiamperes)              *)
(***************************************************************************)
EXTENDS Integers, Sequences, FiniteSets, TLC

VARIABLES
    connected,          \* MavlinkManager.connected
    running,            \* MavlinkManager.running
    connection,         \* MavlinkManager.connection: 0 = None, else the id of a connection object
    openConns,          \* ids of the connection objects whose port is open
    loops,              \* per _telemetry_loop thread: whether it lives, and the message it holds
    telemetry_thread,   \* MavlinkManager.telemetry_thread: 0 = None, else the id of a thread
    nConnects,          \* connection objects created so far
    cx,                 \* the connect call in progress, or the last one made
    loopErrors,         \* exceptions caught by the except branch of _telemetry_loop
    ordered,            \* the store the messages received by the loop give, applied in receive order
    prefixes,           \* the values ordered has had
    telemetry,          \* MavlinkManager.telemetry
    hasBatteryStatus,   \* MavlinkManager._has_battery_status
    fed,                \* the quantities (voltage, current) _ema has been given a sample of
    reader,             \* a client of the manager: whether its slot is connected to
                        \* telemetry_updated, the dictionary the signal delivered in the
                        \* latest loop iteration, the dictionary get_telemetry() gave it
    inbox,              \* messages the transport has delivered and no recv_match has returned yet
    delivered,          \* number of battery and other samples the vehicle has streamed
    outbox,             \* protocol messages written to the transport that the vehicle has not read yet
    vehicleCount,       \* the vehicle: the count of the last MISSION_COUNT it read
    sensor,             \* the vehicle: the raw battery sample its sensor holds
    up,                 \* per upload thread: the position and locals of its upload_mission call
    tab                 \* SecondDroneTab: is_connected, the status label, where toggle_connection stands

vars == <<connected, running, connection, openConns, loops, telemetry_thread, nConnects, cx,
          loopErrors, ordered, prefixes, telemetry, hasBatteryStatus, fed, reader, inbox,
          delivered, outbox, vehicleCount, sensor, up, tab>>

managerVars == <<connected, running, connection, openConns, loops, telemetry_thread,
                 nConnects, cx, loopErrors, tab>>
wireVars == <<inbox, delivered, outbox, vehicleCount, sensor>>
storeVars == <<telemetry, hasBatteryStatus, ordered, prefixes, fed, reader>>

----------------------------------------------------------------------------
\* Bounds of the model

MaxCalls == 2            \* upload_mission calls per upload thread
MaxWaypoints == 2        \* length of the waypoint list handed to upload_mission
MaxConnects == 2         \* connection objects created by connect
MaxInbox == 1            \* messages waiting in the transport
MaxDelivered == 4        \* samples the vehicle streams
MaxRetries == 2          \* the retries argument of connect
MaxLoopErrors == 1       \* exceptions caught by the telemetry loop

Threads == 1..MaxConnects \* a telemetry thread bears the id of the connection of its attempt

Uploaders == {1, 2}       \* upload threads

----------------------------------------------------------------------------
\* Constants of the program

MAV_CMD_NAV_WAYPOINT == 16
MAV_CMD_NAV_RETURN_TO_LAUNCH == 20
MAV_CMD_NAV_TAKEOFF == 22
MAV_FRAME_GLOBAL_RELATIVE_ALT == 3
MAV_MISSION_ACCEPTED == 0
MAV_MISSION_ERROR == 1
MAV_MODE_FLAG_SAFETY_ARMED == 128
UINT16_MAX == 65535
TAKEOFF_ALT == 10
ACCEPTANCE_RADIUS == 2
EMA_ALPHA_PERCENT == 4
DEFAULT_RETRIES == 3

----------------------------------------------------------------------------
\* Messages of the transport (the fields the program reads)

TelemetryTypes == {"GLOBAL_POSITION_INT", "ATTITUDE", "SYS_STATUS", "BATTERY_STATUS", "HEARTBEAT"}
HandshakeTypes == {"MISSION_ACK", "MISSION_REQUEST", "MISSION_COUNT"}

GlobalPositionInt(lat, lon, ralt) ==
    [type |-> "GLOBAL_POSITION_INT", lat |-> lat, lon |-> lon, relative_alt |-> ralt]
Attitude(p, r, y) == [type |-> "ATTITUDE", pitch |-> p, roll |-> r, yaw |-> y]
SysStatus(rem, mv, ca) ==
    [type |-> "SYS_STATUS", battery_remaining |-> rem, voltage_battery |-> mv, current_battery |-> ca]
BatteryStatus(cells, ca, rem) ==
    [type |-> "BATTERY_STATUS", voltages |-> cells, current_battery |-> ca, battery_remaining |-> rem]
Heartbeat(base, custom) == [type |-> "HEARTBEAT", base_mode |-> base, custom_mode |-> custom]
StatusText == [type |-> "STATUSTEXT"]
MissionAck(status) == [type |-> "MISSION_ACK", status |-> status]
MissionRequest(seq) == [type |-> "MISSION_REQUEST", seq |-> seq]
MissionCount(n) == [type |-> "MISSION_COUNT", count |-> n]

\* Telemetry the vehicle may transmit
PositionMsgs == {GlobalPositionInt(370000000, -1220000000, 10000)}
AttitudeMsgs == {Attitude(1, 0, -1)}
SysStatusMsgs == {SysStatus(50, 12000, 150), SysStatus(120, 12500, 150),
                  SysStatus(-1, UINT16_MAX, -1), SysStatus(0, 0, 0)}
BatteryStatusMsgs == {BatteryStatus(<<4000, 4200, 4100, UINT16_MAX>>, 200, 80),
                      BatteryStatus(<<UINT16_MAX, 0>>, -1, -1),
                      BatteryStatus(<<4000, 4000, 4000>>, 0, 130)}
HeartbeatMsgs == {Heartbeat(81, 0), Heartbeat(81 + MAV_MODE_FLAG_SAFETY_ARMED, 3)}
TelemetryMsgs == PositionMsgs \cup AttitudeMsgs \cup SysStatusMsgs
                     \cup BatteryStatusMsgs \cup HeartbeatMsgs

\* Handshake replies the vehicle may transmit
AckMsgs == {MissionAck(MAV_MISSION_ACCEPTED), MissionAck(MAV_MISSION_ERROR)}
RequestMsgs == {MissionRequest(s) : s \in 0..1}
CountMsgs == {MissionCount(n) : n \in 1..2}
HandshakeMsgs == AckMsgs \cup RequestMsgs \cup CountMsgs

----------------------------------------------------------------------------
\* MavlinkManager: the telemetry store

InitTelemetry ==
    [lat |-> 0, lon |-> 0, alt |-> 0, pitch |-> 0, roll |-> 0, yaw |-> 0,
     battery |-> 0, voltage |-> 0, current |-> 0, mode |-> "Unknown", armed |-> FALSE]

MinSecond(a, b) == b
Min(a, b) == IF a < b THEN a ELSE b
Max(a, b) == IF a > b THEN a ELSE b

\* alpha * d, rounded toward zero
ScaledTwofold(d) == 2 * d
Scaled(d) == IF d >= 0 THEN (EMA_ALPHA_PERCENT * d) \div 100
                       ELSE -((EMA_ALPHA_PERCENT * (-d)) \div 100)

Ema(old_value, new_value) ==
    IF old_value = 0 THEN new_value ELSE old_value + Scaled(new_value - old_value)

RECURSIVE SumSeq(_)
SumSeq(s) == IF s = <<>> THEN 0 ELSE Head(s) + SumSeq(Tail(s))

ValidCells(voltages) == SelectSeq(voltages, LAMBDA v : 0 < v /\ v < UINT16_MAX)

\* mavutil.mode_string_v10 for a copter
ModeString(msg) ==
    CASE msg.custom_mode = 0 -> "STABILIZE"
      [] msg.custom_mode = 3 -> "AUTO"
      [] OTHER -> "Mode"

ApplyPositionSmoothed(t, msg) ==
    [t EXCEPT !.lat = Ema(t.lat, msg.lat \div 10000000),
              !.lon = Ema(t.lon, msg.lon \div 10000000),
              !.alt = Ema(t.alt, msg.relative_alt \div 1000)]
ApplyPosition(t, msg) ==
    [t EXCEPT !.lat = msg.lat \div 10000000,
              !.lon = msg.lon \div 10000000,
              !.alt = msg.relative_alt \div 1000]

ApplyAttitude(t, msg) ==
    [t EXCEPT !.pitch = msg.pitch * 572958,
              !.roll = msg.roll * 572958,
              !.yaw = msg.yaw * 572958]

SysStatusUsedAlways(has) == TRUE
SysStatusUsed(has) == ~has

ApplySysStatus(t, has, msg) ==
    LET t1 == IF SysStatusUsed(has) /\ msg.battery_remaining \notin {-1, 0}
              THEN [t EXCEPT !.battery = Max(0, Min(100, msg.battery_remaining))]
              ELSE t
        t2 == IF SysStatusUsed(has) /\ msg.voltage_battery \notin {-1, 0, UINT16_MAX}
                   /\ msg.voltage_battery < UINT16_MAX
              THEN [t1 EXCEPT !.voltage = Ema(t1.voltage, msg.voltage_battery * 1000)]
              ELSE t1
    IN  IF SysStatusUsed(has) /\ msg.current_battery # -1 /\ msg.current_battery < UINT16_MAX
        THEN [t2 EXCEPT !.current = Ema(t2.current, msg.current_battery * 10000)]
        ELSE t2

ApplyBatteryStatus(t, msg) ==
    LET cells == ValidCells(msg.voltages)
        t1 == IF cells # <<>>
              THEN [t EXCEPT !.voltage = Ema(t.voltage, SumSeq(cells) * 1000)]
              ELSE t
        t2 == IF msg.current_battery # -1 /\ 0 <= msg.current_battery
                   /\ msg.current_battery < UINT16_MAX
              THEN [t1 EXCEPT !.current = Ema(t1.current, msg.current_battery * 10000)]
              ELSE t1
    IN  IF msg.battery_remaining # -1
        THEN [t2 EXCEPT !.battery = Max(0, Min(100, msg.battery_remaining))]
        ELSE t2

ApplyHeartbeat(t, msg) ==
    [t EXCEPT !.armed = (msg.base_mode \div MAV_MODE_FLAG_SAFETY_ARMED) % 2 = 1,
              !.mode = ModeString(msg)]

\* The raw voltage (microvolts) and current (microamperes) the loop body computes
\* from msg: raw_v and raw_a
RawVoltage(msg) ==
    IF msg.type = "SYS_STATUS" THEN msg.voltage_battery * 1000
    ELSE SumSeq(ValidCells(msg.voltages)) * 1000
RawCurrent(msg) == msg.current_battery * 10000

\* The quantities for which the loop body calls _ema on msg
SampledBy(has, msg) ==
    CASE msg.type = "SYS_STATUS" ->
            {q \in {"voltage"} : /\ SysStatusUsed(has)
                                 /\ msg.voltage_battery \notin {-1, 0, UINT16_MAX}
                                 /\ msg.voltage_battery < UINT16_MAX}
            \cup {q \in {"current"} : /\ SysStatusUsed(has)
                                      /\ msg.current_battery # -1
                                      /\ msg.current_battery < UINT16_MAX}
      [] msg.type = "BATTERY_STATUS" ->
            {q \in {"voltage"} : ValidCells(msg.voltages) # <<>>}
            \cup {q \in {"current"} : /\ msg.current_battery # -1
                                      /\ 0 <= msg.current_battery
                                      /\ msg.current_battery < UINT16_MAX}
      [] OTHER -> {}

\* The store after one iteration of the loop body on msg
ApplyMessage(t, has, msg) ==
    CASE msg.type = "GLOBAL_POSITION_INT" -> ApplyPosition(t, msg)
      [] msg.type = "ATTITUDE" -> ApplyAttitude(t, msg)
      [] msg.type = "SYS_STATUS" -> ApplySysStatus(t, has, msg)
      [] msg.type = "BATTERY_STATUS" -> ApplyBatteryStatus(t, msg)
      [] msg.type = "HEARTBEAT" -> ApplyHeartbeat(t, msg)
      [] OTHER -> t

\* self.telemetry.copy(): a dictionary of its own holding the values of the store
\* (numbers, a string, a boolean); "ref" tells whether a dictionary handed out is
\* such a copy or the store itself
SnapshotShared(t) == [ref |-> "store", val |-> t]
Snapshot(t) == [ref |-> "copy", val |-> t]

\* updated: set in each of the five branches of the loop body
UpdatedUnlessStatus(msg) == msg.type \in TelemetryTypes \ {"SYS_STATUS"}
Updated(msg) == msg.type \in TelemetryTypes

\* if updated: telemetry_updated.emit(self.telemetry.copy()), t being the store after
\* the branch of msg; a signal without a connected slot delivers nothing
NoReader == [listening |-> FALSE, heard |-> <<>>, got |-> <<>>]
Unnotified(rd) == IF rd.listening THEN [rd EXCEPT !.heard = <<>>] ELSE rd
Notify(rd, t, msg) ==
    IF rd.listening /\ Updated(msg) THEN [rd EXCEPT !.heard = <<Snapshot(t)>>]
    ELSE Unnotified(rd)

----------------------------------------------------------------------------
\* MissionUploader: the mission builder

TakeoffItem ==
    [command |-> MAV_CMD_NAV_TAKEOFF, param1 |-> 0, param2 |-> 0, param3 |-> 0, param4 |-> 0,
     x |-> 0, y |-> 0, z |-> TAKEOFF_ALT, frame |-> MAV_FRAME_GLOBAL_RELATIVE_ALT]

WaypointItemLonLat(wp) ==
    [command |-> MAV_CMD_NAV_WAYPOINT, param1 |-> 0, param2 |-> ACCEPTANCE_RADIUS,
     param3 |-> 0, param4 |-> 0,
     x |-> wp[2], y |-> wp[1], z |-> wp[3], frame |-> MAV_FRAME_GLOBAL_RELATIVE_ALT]

WaypointItem(wp) ==
    [command |-> MAV_CMD_NAV_WAYPOINT, param1 |-> 0, param2 |-> ACCEPTANCE_RADIUS,
     param3 |-> 0, param4 |-> 0,
     x |-> wp[1], y |-> wp[2], z |-> wp[3], frame |-> MAV_FRAME_GLOBAL_RELATIVE_ALT]

RtlItem ==
    [command |-> MAV_CMD_NAV_RETURN_TO_LAUNCH, param1 |-> 0, param2 |-> 0, param3 |-> 0,
     param4 |-> 0, x |-> 0, y |-> 0, z |-> 0, frame |-> MAV_FRAME_GLOBAL_RELATIVE_ALT]

TakeoffPart(add_takeoff) == IF add_takeoff THEN <<TakeoffItem>> ELSE <<>>
RtlPart(add_rtl) == IF add_rtl THEN <<RtlItem>> ELSE <<>>

BuildMissionItems(waypoints, add_takeoff, add_rtl) ==
    TakeoffPart(add_takeoff)
        \o [i \in 1..Len(waypoints) |-> WaypointItem(waypoints[i])]
        \o RtlPart(add_rtl)

\* Inputs of upload_mission: (lat, lon, alt) in 1e-3 degrees and metres
WaypointValues == {<<37000, -122000, 10>>, <<37001, -122000, 10>>}
WaypointLists == UNION {[1..n -> WaypointValues] : n \in 0..MaxWaypoints}
\* The lists of one repeated waypoint
UniformLists == {[i \in 1..n |-> <<37000, -122000, 10>>] : n \in 0..MaxWaypoints}

----------------------------------------------------------------------------
\* MissionUploader: protocol messages written to the transport

ClearAllMsg(u) == [type |-> "MISSION_CLEAR_ALL", by |-> u]
CountMsg(u, count) == [type |-> "MISSION_COUNT", by |-> u, count |-> count]
CurrentFlagEvery(seq) == 1
CurrentFlag(seq) == IF seq = 0 THEN 1 ELSE 0
ItemMsg(u, seq, item) ==
    [type |-> "MISSION_ITEM", by |-> u, seq |-> seq, current |-> CurrentFlag(seq),
     autocontinue |-> 1, item |-> item]
RequestListMsg(u) == [type |-> "MISSION_REQUEST_LIST", by |-> u]

----------------------------------------------------------------------------
\* MissionUploader.upload_mission: one record per upload thread
\*   pc      where the call stands: "idle" (no call yet), an await_* wait inside
\*           recv_match, or "done" (returned)
\*   waypoints, add_takeoff, add_rtl   the arguments of the call
\*   conn    self.connection
\*   items   mission_items
\*   msg     what the last recv_match of the call returned (NoMsg for None)
\*   out     the protocol messages the call has written so far
\*   seq     the loop variable of the item loop
\*   result  the returned (success, message); n is the number formatted into message
\*   progress  the mission_upload_progress notifications the call has emitted
\*   calls   upload_mission calls made by this thread
\*   helper  upload_mission_to_drone on this thread: "no" (not called), "running"
\*           (inside upload_mission) or "returned"
\*   manager, entries  the arguments of upload_mission_to_drone
\*   slots   connections of the planner tab's on_upload_progress to
\*           mission_upload_progress
\*   status_log  what on_upload_progress has appended to the planner tab's status
\*           log since the tab started its latest upload
\*   ret     what upload_mission_to_drone returned

AwaitStates == {"await_clear_ack", "await_first_request", "await_item_reply", "await_count"}

NoResult == [success |-> FALSE, message |-> "", n |-> 0]
NoMsg == [type |-> "None"]
InitUploader ==
    [pc |-> "idle", waypoints |-> <<>>, add_takeoff |-> FALSE, add_rtl |-> FALSE,
     conn |-> 0, items |-> <<>>, seq |-> 0, msg |-> NoMsg, out |-> <<>>,
     result |-> NoResult, progress |-> <<>>, calls |-> 0,
     helper |-> "no", manager |-> "None", entries |-> <<>>, ret |-> FALSE,
     slots |-> 0, status_log |-> <<>>]

\* upload_mission_to_drone after success, message = uploader.upload_mission(...)
HelperReturned(r, success) ==
    IF r.helper = "running" THEN [r EXCEPT !.helper = "returned", !.ret = success] ELSE r

\* upload_mission returns; if upload_mission_to_drone made the call, it returns too
Returned(r, success, message, n) ==
    HelperReturned([r EXCEPT !.pc = "done",
                             !.result = [success |-> success, message |-> message, n |-> n]],
                   success)

\* The message type the wait at r.pc passes to recv_match
ItemReplyTypeRequest(seq, total_items) == "MISSION_REQUEST"
ItemReplyType(seq, total_items) ==
    IF seq < total_items - 1 THEN "MISSION_REQUEST" ELSE "MISSION_ACK"

ExpectedType(r) ==
    CASE r.pc = "await_clear_ack" -> "MISSION_ACK"
      [] r.pc = "await_first_request" -> "MISSION_REQUEST"
      [] r.pc = "await_item_reply" -> ItemReplyType(r.seq, Len(r.items))
      [] r.pc = "await_count" -> "MISSION_COUNT"
      [] OTHER -> "none"

\* upload_mission's return when the step waiting at r.pc returns False
StepFailedUnnamed(r) == Returned(r, FALSE, "Upload failed", 0)
StepFailed(r) ==
    CASE r.pc = "await_clear_ack" -> Returned(r, FALSE, "Failed to clear existing mission", 0)
      [] r.pc = "await_first_request" -> Returned(r, FALSE, "Failed to send mission count", 0)
      [] r.pc = "await_item_reply" -> Returned(r, FALSE, "Failed to upload waypoint", r.seq)
      [] OTHER -> Returned(r, FALSE, "Mission verification failed", 0)

\* The notifications of mission_upload_progress: the text, and the numbers formatted
\* into it
ClearingNote == [text |-> "Clearing existing mission...", n |-> 0, of |-> 0]
CountNote(total) == [text |-> "Sending mission count: items", n |-> total, of |-> 0]
WaypointNoteFromZero(seq, total) == [text |-> "Uploading waypoint", n |-> seq, of |-> total]
WaypointNote(seq, total) == [text |-> "Uploading waypoint", n |-> seq + 1, of |-> total]
VerifyingNote == [text |-> "Verifying mission...", n |-> 0, of |-> 0]
SuccessNote == [text |-> "Mission uploaded successfully!", n |-> 0, of |-> 0]

\* mission_upload_progress.emit(note): every connection of on_upload_progress calls
\* it with the note, and it appends the note to the status log
Delivered(note, connections) == [i \in 1..connections |-> note]
Emit(r, note) == [r EXCEPT !.progress = Append(@, note),
                           !.status_log = @ \o Delivered(note, r.slots)]

\* An outcome of a piece of upload_mission: the thread's record and what it wrote
Outcome(rec, out) == [rec |-> [rec EXCEPT !.out = @ \o out], out |-> out]

\* _clear_mission up to its wait (a send on a closed port raises, the step returns False)
ClearStepSkipped(r, u, open) ==
    Outcome([r EXCEPT !.pc = "await_first_request"], <<CountMsg(u, Len(r.items))>>)
ClearStep(r, u, open) ==
    LET e == Emit(r, ClearingNote)
    IN  IF open THEN Outcome([e EXCEPT !.pc = "await_clear_ack"], <<ClearAllMsg(u)>>)
        ELSE Outcome(StepFailed([e EXCEPT !.pc = "await_clear_ack"]), <<>>)

\* _send_mission_count up to its wait
CountStep(r, u, open) ==
    LET e == Emit(r, CountNote(Len(r.items)))
    IN  IF open
        THEN Outcome([e EXCEPT !.pc = "await_first_request"], <<CountMsg(u, Len(r.items))>>)
        ELSE Outcome(StepFailed([e EXCEPT !.pc = "await_first_request"]), <<>>)

\* _verify_mission up to its wait
VerifyStep(r, u, open) ==
    LET e == Emit(r, VerifyingNote)
    IN  IF open THEN Outcome([e EXCEPT !.pc = "await_count"], <<RequestListMsg(u)>>)
        ELSE Outcome(StepFailed([e EXCEPT !.pc = "await_count"]), <<>>)

\* The item loop from index seq on: _send_mission_item(seq) up to its wait, or, the
\* loop being over, the verify step
ItemStep(r, u, seq, open) ==
    IF seq >= Len(r.items) THEN VerifyStep(r, u, open)
    ELSE LET e == Emit(r, WaypointNote(seq, Len(r.items)))
         IN  IF open
             THEN Outcome([e EXCEPT !.pc = "await_item_reply", !.seq = seq],
                          <<ItemMsg(u, seq, r.items[seq + 1])>>)
             ELSE Outcome(StepFailed([e EXCEPT !.pc = "await_item_reply", !.seq = seq]), <<>>)

ClearAcceptedAny(msg) == TRUE
ClearAccepted(msg) == msg.status = MAV_MISSION_ACCEPTED
ItemReplyAccepted(msg) == TRUE
NextSeq(r, msg) == r.seq + 1
CountVerified(msg, expected_count) == msg.count = expected_count

\* upload_mission from the wait at r0.pc on, recv_match having returned msg
OnReply(r0, u, msg, open) ==
    LET r == [r0 EXCEPT !.msg = msg]
    IN  CASE r.pc = "await_clear_ack" ->
                IF ClearAccepted(msg) THEN CountStep(r, u, open)
                ELSE Outcome(StepFailed(r), <<>>)
          [] r.pc = "await_first_request" -> ItemStep(r, u, 0, open)
          [] r.pc = "await_item_reply" ->
                IF ItemReplyAccepted(msg) THEN ItemStep(r, u, NextSeq(r, msg), open)
                ELSE Outcome(StepFailed(r), <<>>)
          [] OTHER ->
                IF CountVerified(msg, Len(r.items))
                THEN Outcome(Returned(Emit(r, SuccessNote), TRUE,
                                      "Successfully uploaded waypoints", Len(r.items)), <<>>)
                ELSE Outcome(StepFailed(r), <<>>)

\* upload_mission from the wait at r.pc on, recv_match having returned None or raised
OnNoReplyWaits(r) == r
OnNoReply(r) == StepFailed([r EXCEPT !.msg = NoMsg])

----------------------------------------------------------------------------
\* MavlinkManager: the connect call and the telemetry threads
\*   cx.pc        "idle" (no call in progress) or "attempt" (inside the for loop)
\*   cx.retries   the retries argument
\*   cx.attempt   attempts finished so far
\*   cx.emitted   the connection_status_changed values the call has emitted
\*   cx.result    the returned (success, message)
\*   cx.value     what the call returned: "pair" (a tuple), "None" (the function ran
\*                off its end), or "pending" (nothing yet)
\*   cx.heartbeat what wait_heartbeat returned in the attempt that succeeded: a
\*                HEARTBEAT (TRUE) or None (FALSE)

NoConnectResult == [success |-> FALSE, message |-> ""]
IdleCall ==
    [pc |-> "idle", retries |-> 0, attempt |-> 0, emitted |-> <<>>,
     result |-> NoConnectResult, value |-> "pending", heartbeat |-> FALSE]
NewCall(retries) == [IdleCall EXCEPT !.pc = "attempt", !.retries = retries]

\* What makes an attempt raise: opening the port (PermissionError or another error),
\* or the heartbeat wait on the opened port
FailureKinds == {"permission", "open_error", "heartbeat_error"}
Opened(kind) == kind = "heartbeat_error"

FailureMessage(kind) ==
    IF kind = "permission" THEN "Port is already in use or requires admin access"
    ELSE "Connection failed after attempts"

\* The vehicle's battery sensor: the message that carries its samples, and the raw
\* voltage (millivolts) and current (centiamperes) it reads
NoSensor == [kind |-> "none", mv |-> 0, ca |-> 0]

NoLoop == [live |-> FALSE, msg |-> NoMsg]
StartedLoop == [live |-> TRUE, msg |-> NoMsg]

\* The store and the flag after the loop body has run on msg
StoreAfter(s, msg) ==
    [t |-> ApplyMessage(s.t, s.has, msg), has |-> (s.has \/ msg.type = "BATTERY_STATUS")]

\* SecondDroneTab
\*   tab.pc            "idle", or "connecting": toggle_connection is inside connect
\*   tab.is_connected  SecondDroneTab.is_connected
\*   tab.status        the text of conn_status_label
InitTab == [pc |-> "idle", is_connected |-> FALSE, status |-> "Not Connected"]

\* bool(value) for what connect returns: a tuple of two elements is true, None false
Truthy(value) == value = "pair"

\* toggle_connection after success = connect(port): if success: ... else: ...
AfterConnect(tb, value) ==
    IF tb.pc # "connecting" THEN tb
    ELSE IF Truthy(value)
         THEN [pc |-> "idle", is_connected |-> TRUE, status |-> "Drone 2 Connected"]
         ELSE [tb EXCEPT !.pc = "idle"]

----------------------------------------------------------------------------
\* State after construction of the manager; no upload_mission call made yet

Init ==
    /\ connected = FALSE
    /\ running = FALSE
    /\ connection = 0
    /\ openConns = {}
    /\ loops = [t \in Threads |-> NoLoop]
    /\ telemetry_thread = 0
    /\ nConnects = 0
    /\ cx = IdleCall
    /\ loopErrors = 0
    /\ telemetry = InitTelemetry
    /\ hasBatteryStatus = FALSE
    /\ fed = {}
    /\ reader = NoReader
    /\ ordered = [t |-> InitTelemetry, has |-> FALSE]
    /\ prefixes = {InitTelemetry}
    /\ inbox = <<>>
    /\ delivered = 0
    /\ outbox = <<>>
    /\ vehicleCount = 0
    /\ sensor = NoSensor
    /\ up = [u \in Uploaders |-> InitUploader]
    /\ tab = InitTab

----------------------------------------------------------------------------
\* MavlinkManager.connect and disconnect

\* for attempt in range(retries) has no iteration left and none has returned: the
\* call ends without a return statement
RanOffEnd(c) == [c EXCEPT !.pc = "idle", !.value = "None"]

\* connect(port, baudrate, retries) is called; with retries = 0 the for loop has no
\* iteration
ConnectCall(retries) ==
    /\ cx.pc = "idle"
    /\ cx' = IF retries > 0 THEN NewCall(retries) ELSE RanOffEnd(NewCall(retries))
    /\ UNCHANGED <<connected, running, connection, openConns, loops, telemetry_thread,
                   nConnects, loopErrors, storeVars, wireVars, up, tab>>

\* An attempt of the call c runs to the return: the port is opened, wait_heartbeat
\* returns (a heartbeat or, its 10 s over, None), the telemetry thread is started
AttemptSucceeds(c, heartbeat) ==
    /\ nConnects < MaxConnects
    /\ nConnects' = nConnects + 1
    /\ connection' = nConnects + 1
    /\ openConns' = openConns \cup {nConnects + 1}
    /\ connected' = TRUE
    /\ running' = TRUE
    /\ telemetry_thread' = nConnects + 1
    /\ loops' = [loops EXCEPT ![nConnects + 1] = StartedLoop]
    /\ cx' = [c EXCEPT !.pc = "idle", !.attempt = @ + 1, !.emitted = @ \o <<TRUE>>,
                       !.result = [success |-> TRUE, message |-> "Connected successfully"],
                       !.value = "pair", !.heartbeat = heartbeat]
    /\ tab' = AfterConnect(tab, "pair")
    /\ UNCHANGED <<loopErrors, storeVars, wireVars, up>>

\* After a failed attempt: attempt < retries - 1
RetryingNever(c) == FALSE
Retrying(c) == c.attempt < c.retries - 1

\* An attempt of the call c raises: another attempt follows, or, the attempt being
\* the last, the call returns its failure
AttemptFails(c, kind) ==
    /\ Opened(kind) => nConnects < MaxConnects
    /\ nConnects' = IF Opened(kind) THEN nConnects + 1 ELSE nConnects
    /\ connection' = IF Opened(kind) THEN nConnects + 1 ELSE connection
    /\ openConns' = IF Opened(kind) THEN openConns \cup {nConnects + 1} ELSE openConns
    /\ IF Retrying(c)
       THEN /\ cx' = [c EXCEPT !.pc = "attempt", !.attempt = @ + 1]
            /\ connected' = connected
            /\ tab' = tab
       ELSE /\ cx' = [c EXCEPT !.pc = "idle", !.attempt = @ + 1, !.emitted = @ \o <<FALSE>>,
                               !.result = [success |-> FALSE, message |-> FailureMessage(kind)],
                               !.value = "pair"]
            /\ connected' = FALSE
            /\ tab' = AfterConnect(tab, "pair")
    /\ UNCHANGED <<running, loops, telemetry_thread, loopErrors, storeVars, wireVars, up>>

AttemptOk == cx.pc = "attempt" /\ \E heartbeat \in BOOLEAN : AttemptSucceeds(cx, heartbeat)
AttemptFail == cx.pc = "attempt" /\ \E kind \in FailureKinds : AttemptFails(cx, kind)

\* connect with retries = 1 to a vehicle whose heartbeat arrives
ConnectOk == cx.pc = "idle" /\ AttemptSucceeds(NewCall(1), TRUE)

\* The first connect made on the manager
FirstConnect == nConnects = 0 /\ ConnectOk

\* connect with retries = 1, opening the port raising
ConnectFail == cx.pc = "idle" /\ AttemptFails(NewCall(1), "open_error")

\* connection.close()
ClosePortSkipped(open, conn) == open
ClosePort(open, conn) == open \ {conn}

\* disconnect: the flags are cleared, the thread telemetry_thread names is joined (it
\* finishes the iteration it is in and ends), the port is closed
JoinedNone == {}
Joined == IF telemetry_thread # 0 /\ loops[telemetry_thread].live THEN {telemetry_thread} ELSE {}
DisconnectCall ==
    /\ running' = FALSE
    /\ connected' = FALSE
    /\ loops' = [t \in Threads |-> IF t \in Joined THEN NoLoop ELSE loops[t]]
    /\ LET held == {loops[t].msg : t \in Joined} \ {NoMsg}
       IN  IF held = {}
           THEN UNCHANGED <<telemetry, hasBatteryStatus, fed, reader>>
           ELSE LET m == CHOOSE h \in held : TRUE
                    s == StoreAfter([t |-> telemetry, has |-> hasBatteryStatus], m)
                IN  /\ telemetry' = s.t
                    /\ hasBatteryStatus' = s.has
                    /\ fed' = fed \cup SampledBy(hasBatteryStatus, m)
                    /\ reader' = Notify(reader, s.t, m)
    /\ openConns' = ClosePort(openConns, connection)
    /\ connection' = 0
    /\ UNCHANGED <<telemetry_thread, nConnects, cx, loopErrors, ordered, prefixes, wireVars, up>>

\* disconnect called by the planner window
Disconnect == DisconnectCall /\ UNCHANGED tab

\* The port of the manager's connection breaks (the link is unplugged)
TransportFail ==
    /\ connection \in openConns
    /\ openConns' = openConns \ {connection}
    /\ UNCHANGED <<connected, running, connection, loops, telemetry_thread, nConnects, cx,
                   loopErrors, storeVars, wireVars, up, tab>>

----------------------------------------------------------------------------
\* SecondDroneTab.toggle_connection

\* The button is pressed.  Not connected: a new MavlinkManager is made and
\* connect(port) is called on it, with the default retries; the handler goes on when
\* connect returns (AfterConnect).  Connected: the manager is disconnected and dropped.
ToggleConnection ==
    /\ tab.pc = "idle"
    /\ cx.pc = "idle"
    /\ IF ~tab.is_connected
       THEN /\ connected' = FALSE
            /\ running' = FALSE
            /\ connection' = 0
            /\ telemetry_thread' = 0
            /\ telemetry' = InitTelemetry
            /\ hasBatteryStatus' = FALSE
            /\ fed' = {}
            /\ ordered' = [t |-> InitTelemetry, has |-> FALSE]
            /\ prefixes' = {InitTelemetry}
            /\ cx' = NewCall(DEFAULT_RETRIES)
            /\ tab' = [tab EXCEPT !.pc = "connecting"]
            /\ UNCHANGED <<openConns, loops, nConnects, loopErrors, reader, wireVars, up>>
       ELSE /\ DisconnectCall
            /\ tab' = InitTab

----------------------------------------------------------------------------
\* MavlinkManager._telemetry_loop

Receiving(t) == loops[t].live /\ loops[t].msg = NoMsg /\ running /\ connected

\* One whole iteration: recv_match() returns the next message, whatever its type,
\* and the body folds it into the store
TelemetryRecv ==
    /\ \E t \in Threads : Receiving(t)
    /\ connection \in openConns
    /\ inbox # <<>>
    /\ telemetry' = ApplyMessage(telemetry, hasBatteryStatus, Head(inbox))
    /\ hasBatteryStatus' = (hasBatteryStatus \/ Head(inbox).type = "BATTERY_STATUS")
    /\ fed' = fed \cup SampledBy(hasBatteryStatus, Head(inbox))
    /\ reader' = Notify(reader, ApplyMessage(telemetry, hasBatteryStatus, Head(inbox)),
                        Head(inbox))
    /\ ordered' = StoreAfter(ordered, Head(inbox))
    /\ prefixes' = prefixes \cup {ordered'.t}
    /\ inbox' = Tail(inbox)
    /\ UNCHANGED <<managerVars, delivered, outbox, vehicleCount, sensor, up>>

\* The first half of an iteration of thread t: recv_match() returns the next message;
\* a message of a type the body has no branch for ends the iteration
LoopTake(t) ==
    /\ Receiving(t)
    /\ connection \in openConns
    /\ inbox # <<>>
    /\ loops' = [loops EXCEPT ![t].msg = IF Head(inbox).type \in TelemetryTypes
                                         THEN Head(inbox) ELSE NoMsg]
    /\ reader' = Unnotified(reader)
    /\ ordered' = StoreAfter(ordered, Head(inbox))
    /\ prefixes' = prefixes \cup {ordered'.t}
    /\ inbox' = Tail(inbox)
    /\ UNCHANGED <<connected, running, connection, openConns, telemetry_thread, nConnects, cx,
                   loopErrors, telemetry, hasBatteryStatus, fed, delivered, outbox,
                   vehicleCount, sensor, up, tab>>

\* The store a reader finds once the with telemetry_lock block of msg is over
LockedUpdateTorn(t, has, msg) == [ApplyMessage(t, has, msg) EXCEPT !.lon = t.lon]
LockedUpdate(t, has, msg) == ApplyMessage(t, has, msg)

\* get_telemetry(): a copy of the store, taken under telemetry_lock
GetTelemetry == telemetry

\* A client calls get_telemetry() and keeps the dictionary it returns
ReaderGet ==
    /\ reader.listening
    /\ reader.got = <<>>
    /\ reader' = [reader EXCEPT !.got = <<Snapshot(GetTelemetry)>>]
    /\ UNCHANGED <<managerVars, telemetry, hasBatteryStatus, ordered, prefixes, fed,
                   wireVars, up>>

\* The client assigns to a key of a dictionary it holds: the one telemetry_updated
\* delivered ("heard") or the one get_telemetry() returned ("got").  The assignment
\* lands in the object the dictionary is
ReaderModify(which, key, value) ==
    /\ reader[which] # <<>>
    /\ IF reader[which][1].ref = "store"
       THEN /\ telemetry' = [telemetry EXCEPT ![key] = value]
            /\ reader' = reader
       ELSE /\ reader' = [reader EXCEPT ![which][1].val[key] = value]
            /\ telemetry' = telemetry
    /\ UNCHANGED <<managerVars, hasBatteryStatus, ordered, prefixes, fed, wireVars, up>>

\* The second half: under telemetry_lock the branch of the message updates the store
LoopApply(t) ==
    /\ loops[t].live
    /\ loops[t].msg # NoMsg
    /\ telemetry' = LockedUpdate(telemetry, hasBatteryStatus, loops[t].msg)
    /\ hasBatteryStatus' = (hasBatteryStatus \/ loops[t].msg.type = "BATTERY_STATUS")
    /\ fed' = fed \cup SampledBy(hasBatteryStatus, loops[t].msg)
    /\ reader' = Notify(reader, LockedUpdate(telemetry, hasBatteryStatus, loops[t].msg),
                        loops[t].msg)
    /\ loops' = [loops EXCEPT ![t].msg = NoMsg]
    /\ UNCHANGED <<connected, running, connection, openConns, telemetry_thread, nConnects, cx,
                   loopErrors, ordered, prefixes, wireVars, up, tab>>

\* recv_match raises, the port being closed: the except branch prints, sleeps 0.1 s
\* and the loop goes on
TelemetryRecvError ==
    /\ \E t \in Threads : Receiving(t)
    /\ connection \notin openConns
    /\ loopErrors < MaxLoopErrors
    /\ loopErrors' = loopErrors + 1
    /\ UNCHANGED <<connected, running, connection, openConns, loops, telemetry_thread,
                   nConnects, cx, storeVars, wireVars, up, tab>>

\* The while condition is false: a thread ends
LoopExit ==
    /\ ~(running /\ connected)
    /\ \E t \in Threads :
          /\ loops[t].live /\ loops[t].msg = NoMsg
          /\ loops' = [loops EXCEPT ![t] = NoLoop]
    /\ UNCHANGED <<connected, running, connection, openConns, telemetry_thread, nConnects, cx,
                   loopErrors, storeVars, wireVars, up, tab>>

----------------------------------------------------------------------------
\* MissionUploader.upload_mission

ConnOpenAlways(u) == TRUE
ConnOpen(u) == up[u].conn \in openConns

\* self.manager.connected, as upload_mission reads it
ManagerConnectedAlways == TRUE
ManagerConnected == connected

\* The call, up to the wait of _clear_mission
UploadFrom(r, u, waypoints, add_takeoff, add_rtl) ==
    /\ r.pc \in {"idle", "done"}
    /\ r.calls < MaxCalls
    /\ LET r0 == [r EXCEPT !.calls = r.calls + 1, !.result = NoResult,
                           !.msg = NoMsg, !.out = <<>>, !.progress = <<>>,
                           !.waypoints = waypoints,
                           !.add_takeoff = add_takeoff, !.add_rtl = add_rtl]
       IN  IF ~ManagerConnected
           THEN /\ up' = [up EXCEPT ![u] = Returned(r0, FALSE, "Not connected to drone", 0)]
                /\ outbox' = outbox
           ELSE LET r1 == [r0 EXCEPT !.conn = connection, !.seq = 0,
                                     !.items = BuildMissionItems(waypoints, add_takeoff, add_rtl)]
                    o == ClearStep(r1, u, connection \in openConns)
                IN  /\ up' = [up EXCEPT ![u] = o.rec]
                    /\ outbox' = outbox \o o.out
    /\ UNCHANGED <<managerVars, storeVars, inbox, delivered, vehicleCount, sensor>>

\* upload_mission called by the planner's upload thread
UploadStart(u, waypoints, add_takeoff, add_rtl) ==
    UploadFrom(up[u], u, waypoints, add_takeoff, add_rtl)

\* upload_mission_to_drone(mavlink_manager, waypoints): wp.get(key, default) on an
\* entry, the command of an entry, and what the loop over the entries collects
Get(wp, key, default) == IF key \in DOMAIN wp THEN wp[key] ELSE default
EntryCommand(wp) == Get(wp, "command", "WAYPOINT")
MissionWaypoints(entries) ==
    LET sel == SelectSeq(entries, LAMBDA wp : EntryCommand(wp) = "WAYPOINT")
    IN  [i \in 1..Len(sel) |->
            <<Get(sel[i], "lat", 0), Get(sel[i], "lon", 0), Get(sel[i], "alt", 30)>>]
AddTakeoffIfFirst(entries) == entries # <<>> /\ EntryCommand(entries[1]) = "TAKEOFF"
AddTakeoff(entries) == \E i \in 1..Len(entries) : EntryCommand(entries[i]) = "TAKEOFF"
AddRtl(entries) == \E i \in 1..Len(entries) : EntryCommand(entries[i]) = "RTL"

\* upload_mission_to_drone is called on thread u with the manager, or None, and a
\* list of entries: it returns False at once, or calls upload_mission on a new
\* MissionUploader and returns when that call returns (HelperReturned)
HelperCall(u, manager, entries) ==
    /\ up[u].helper = "no"
    /\ up[u].pc = "idle"
    /\ IF manager = "None" \/ entries = <<>>
       THEN /\ up' = [up EXCEPT ![u].helper = "returned", ![u].manager = manager,
                                ![u].entries = entries, ![u].ret = FALSE]
            /\ UNCHANGED <<managerVars, storeVars, wireVars>>
       ELSE UploadFrom([up[u] EXCEPT !.helper = "running", !.manager = manager,
                                     !.entries = entries], u,
                       MissionWaypoints(entries), AddTakeoff(entries), AddRtl(entries))

\* MissionPlannerTab.upload_mission: with waypoints and a connected manager (and the
\* button enabled, no upload of the tab running) it connects on_upload_progress to
\* mission_upload_progress and starts the upload thread, which calls upload_mission
PlannerUpload(u, waypoints, add_takeoff, add_rtl) ==
    /\ waypoints # <<>>
    /\ connected
    /\ UploadFrom([up[u] EXCEPT !.slots = @ + 1, !.status_log = <<>>], u,
                  waypoints, add_takeoff, add_rtl)

\* The first upload_mission call of thread u
FirstUpload(u, waypoints, add_takeoff, add_rtl) ==
    up[u].calls = 0 /\ UploadStart(u, waypoints, add_takeoff, add_rtl)

\* recv_match(type=...) reads the next message: a message of another type is dropped
\* and the wait goes on; a message of the awaited type is returned and the call runs
\* on to its next wait or to its return
UploaderRecv(u) ==
    /\ up[u].pc \in AwaitStates
    /\ ConnOpen(u)
    /\ inbox # <<>>
    /\ inbox' = Tail(inbox)
    /\ IF Head(inbox).type = ExpectedType(up[u])
       THEN LET o == OnReply(up[u], u, Head(inbox), TRUE)
            IN  /\ up' = [up EXCEPT ![u] = o.rec]
                /\ outbox' = outbox \o o.out
       ELSE UNCHANGED <<up, outbox>>
    /\ UNCHANGED <<managerVars, storeVars, delivered, vehicleCount, sensor>>

\* recv_match returns None after its 5 s: the transport holds no message of the
\* awaited type
UploaderTimeout(u) ==
    /\ up[u].pc \in AwaitStates
    /\ ConnOpen(u)
    /\ \A i \in 1..Len(inbox) : inbox[i].type # ExpectedType(up[u])
    /\ up' = [up EXCEPT ![u] = OnNoReply(up[u])]
    /\ UNCHANGED <<managerVars, storeVars, wireVars>>

\* recv_match raises, the port having been closed by disconnect
UploaderRecvError(u) ==
    /\ up[u].pc \in AwaitStates
    /\ ~ConnOpen(u)
    /\ up' = [up EXCEPT ![u] = OnNoReply(up[u])]
    /\ UNCHANGED <<managerVars, storeVars, wireVars>>

----------------------------------------------------------------------------
\* The vehicle

\* The vehicle transmits msg unasked
VehicleSend(msg) ==
    /\ openConns # {}
    /\ Len(inbox) < MaxInbox
    /\ inbox' = Append(inbox, msg)
    /\ UNCHANGED <<managerVars, storeVars, delivered, outbox, vehicleCount, sensor, up>>

\* The vehicle transmits the next sample of its telemetry stream
VehicleStream(msg) ==
    /\ openConns # {}
    /\ Len(inbox) < MaxInbox
    /\ delivered < MaxDelivered
    /\ inbox' = Append(inbox, msg)
    /\ delivered' = delivered + 1
    /\ UNCHANGED <<managerVars, storeVars, outbox, vehicleCount, sensor, up>>

\* The message that carries the sample of the sensor s
Sample(s) ==
    IF s.kind = "SYS_STATUS" THEN SysStatus(-1, s.mv, s.ca)
    ELSE BatteryStatus(<<s.mv>>, s.ca, -1)

\* The vehicle transmits the sample its sensor holds
VehicleSample ==
    /\ sensor.kind # "none"
    /\ VehicleSend(Sample(sensor))

\* The count the vehicle remembers after reading msg
CountAfter(count, msg) ==
    CASE msg.type = "MISSION_CLEAR_ALL" -> 0
      [] msg.type = "MISSION_COUNT" -> msg.count
      [] OTHER -> count

\* What a vehicle following the mission protocol replies to msg
ProtocolReply(count, msg) ==
    CASE msg.type = "MISSION_CLEAR_ALL" -> MissionAck(MAV_MISSION_ACCEPTED)
      [] msg.type = "MISSION_COUNT" ->
            IF msg.count > 0 THEN MissionRequest(0) ELSE MissionAck(MAV_MISSION_ACCEPTED)
      [] msg.type = "MISSION_ITEM" ->
            IF msg.seq < count - 1 THEN MissionRequest(msg.seq + 1)
            ELSE MissionAck(MAV_MISSION_ACCEPTED)
      [] OTHER -> MissionCount(count)

\* The vehicle reads the oldest protocol message and replies msg
VehicleAnswer(msg) ==
    /\ outbox # <<>>
    /\ Len(inbox) < MaxInbox
    /\ vehicleCount' = CountAfter(vehicleCount, Head(outbox))
    /\ inbox' = Append(inbox, msg)
    /\ outbox' = Tail(outbox)
    /\ UNCHANGED <<managerVars, storeVars, delivered, sensor, up>>

\* The vehicle reads the oldest protocol message and replies as the protocol says
VehicleReply ==
    /\ outbox # <<>>
    /\ VehicleAnswer(ProtocolReply(CountAfter(vehicleCount, Head(outbox)), Head(outbox)))

\* The vehicle reads the oldest protocol message and does not reply
VehicleRead ==
    /\ outbox # <<>>
    /\ vehicleCount' = CountAfter(vehicleCount, Head(outbox))
    /\ outbox' = Tail(outbox)
    /\ UNCHANGED <<managerVars, storeVars, inbox, delivered, sensor, up>>

----------------------------------------------------------------------------
\* Specifications

\* Spec: one upload thread, the telemetry loop, connect and disconnect, and a vehicle
\* that answers a protocol message with any handshake reply or with none, and
\* transmits position messages unasked

Next ==
    \/ FirstConnect
    \/ ConnectFail
    \/ Disconnect
    \/ TelemetryRecv
    \/ LoopExit
    \/ \E w \in UniformLists, t \in BOOLEAN, l \in BOOLEAN : UploadStart(1, w, t, l)
    \/ UploaderRecv(1)
    \/ UploaderTimeout(1)
    \/ UploaderRecvError(1)
    \/ VehicleRead
    \/ \E m \in HandshakeMsgs : VehicleAnswer(m)
    \/ \E m \in PositionMsgs : VehicleSend(m)

Spec == Init /\ [][Next]_vars

\* SpecCoop: one upload thread and the telemetry loop on a link that stays up, with a
\* vehicle that follows the mission protocol, replies before any wait times out, and
\* interleaves position and heartbeat messages
LinkTelemetry == PositionMsgs \cup HeartbeatMsgs
CoopNext ==
    \/ FirstConnect
    \/ TelemetryRecv
    \/ \E w \in WaypointLists, t \in BOOLEAN, l \in BOOLEAN : FirstUpload(1, w, t, l)
    \/ UploaderRecv(1)
    \/ outbox = <<>> /\ UploaderTimeout(1)
    \/ VehicleReply
    \/ \E m \in LinkTelemetry : VehicleSend(m)

SpecCoop == Init /\ [][CoopNext]_vars

\* SpecTwo: two upload threads on the same manager, protocol-following vehicle
TwoNext ==
    \/ FirstConnect
    \/ TelemetryRecv
    \/ \E u \in Uploaders, w \in UniformLists : FirstUpload(u, w, TRUE, FALSE)
    \/ \E u \in Uploaders : UploaderRecv(u)
    \/ \E u \in Uploaders : outbox = <<>> /\ UploaderTimeout(u)
    \/ VehicleReply

SpecTwo == Init /\ [][TwoNext]_vars

\* SpecTelemetry: the telemetry loop alone, the vehicle transmitting any telemetry
StoreMsgs == TelemetryMsgs \cup {StatusText}

TelemetryNext ==
    \/ ConnectOk
    \/ Disconnect
    \/ TelemetryRecv
    \/ LoopExit
    \/ \E m \in StoreMsgs : VehicleStream(m)

SpecTelemetry == Init /\ [][TelemetryNext]_vars

\* SpecFault: one upload_mission call, with connect, disconnect and the telemetry loop,
\* on a link that can break while the manager is connected
FaultNext ==
    \/ FirstConnect
    \/ ConnectFail
    \/ Disconnect
    \/ TransportFail
    \/ TelemetryRecv
    \/ TelemetryRecvError
    \/ LoopExit
    \/ \E w \in UniformLists, t \in BOOLEAN, l \in BOOLEAN : FirstUpload(1, w, t, l)
    \/ UploaderRecv(1)
    \/ UploaderTimeout(1)
    \/ UploaderRecvError(1)
    \/ VehicleRead
    \/ \E m \in HandshakeMsgs : VehicleAnswer(m)
    \/ \E m \in PositionMsgs : VehicleSend(m)

SpecFault == Init /\ [][FaultNext]_vars

\* SpecLive: SpecFault with the upload thread scheduled.  The thread keeps running
\* (weak fairness of its receive and of the error it gets on a closed port), and the
\* deadline of recv_match(timeout=5) is absolute, so a wait that is again and again
\* without the awaited message ends (strong fairness of the timeout).
UploadFairness ==
    /\ WF_vars(UploaderRecv(1))
    /\ WF_vars(UploaderRecvError(1))
    /\ SF_vars(UploaderTimeout(1))

SpecLive == SpecFault /\ UploadFairness

\* SpecConnect: connect with any retries, each attempt succeeding or raising,
\* disconnect between the calls, a link that can break, and the telemetry loop
ConnectNext ==
    \/ \E retries \in 0..MaxRetries : ConnectCall(retries)
    \/ AttemptOk
    \/ AttemptFail
    \/ cx.pc = "idle" /\ Disconnect
    \/ TransportFail
    \/ TelemetryRecv
    \/ TelemetryRecvError
    \/ LoopExit
    \/ \E m \in PositionMsgs : VehicleSend(m)

SpecConnect == Init /\ [][ConnectNext]_vars

\* SpecLoop: sessions that follow one another (connect is called on a manager that
\* holds no connection), the iteration of the loop thread in its two halves (the
\* receive, then the locked update), readers calling get_telemetry in any state
NewSession == connection = 0 /\ ConnectOk

LoopNext ==
    \/ NewSession
    \/ ConnectFail
    \/ Disconnect
    \/ \E t \in Threads : LoopTake(t)
    \/ \E t \in Threads : LoopApply(t)
    \/ LoopExit
    \/ \E m \in StoreMsgs : VehicleStream(m)

SpecLoop == Init /\ [][LoopNext]_vars

\* SpecEma: the smoothing of voltage and current.  The manager has connected and its
\* loop has published the first battery sample of the vehicle; from then on the
\* vehicle's sensor holds one raw value, which the vehicle transmits again and again.
\* The loop thread keeps running and the vehicle keeps transmitting (weak fairness).
SensorKinds == {"SYS_STATUS", "BATTERY_STATUS"}
FirstVolts == {11000, 13000}
FirstAmps == {0, 100, 200}
SensorVolts == {12000, 12500}
SensorAmps == {0, 150}

ConnectedCall ==
    [NewCall(1) EXCEPT !.pc = "idle", !.attempt = 1, !.emitted = <<TRUE>>,
                       !.result = [success |-> TRUE, message |-> "Connected successfully"],
                       !.value = "pair", !.heartbeat = TRUE]

InitEma ==
    \E k \in SensorKinds, v0 \in FirstVolts, a0 \in FirstAmps,
       v \in SensorVolts, a \in SensorAmps :
        LET first == Sample([kind |-> k, mv |-> v0, ca |-> a0])
            s0 == StoreAfter([t |-> InitTelemetry, has |-> FALSE], first)
        IN  /\ connected = TRUE
            /\ running = TRUE
            /\ connection = 1
            /\ openConns = {1}
            /\ loops = [t \in Threads |-> IF t = 1 THEN StartedLoop ELSE NoLoop]
            /\ telemetry_thread = 1
            /\ nConnects = 1
            /\ cx = ConnectedCall
            /\ loopErrors = 0
            /\ telemetry = s0.t
            /\ hasBatteryStatus = s0.has
            /\ fed = SampledBy(FALSE, first)
            /\ reader = NoReader
            /\ ordered = s0
            /\ prefixes = {InitTelemetry, s0.t}
            /\ inbox = <<>>
            /\ delivered = 1
            /\ outbox = <<>>
            /\ vehicleCount = 0
            /\ sensor = [kind |-> k, mv |-> v, ca |-> a]
            /\ up = [u \in Uploaders |-> InitUploader]
            /\ tab = InitTab

EmaNext ==
    \/ VehicleSample
    \/ TelemetryRecv

EmaFairness == WF_vars(VehicleSample) /\ WF_vars(TelemetryRecv)

SpecEma == InitEma /\ [][EmaNext]_vars /\ EmaFairness

\* SpecBattery: the battery percentage.  The vehicle transmits SYS_STATUS and
\* BATTERY_STATUS with any battery_remaining of an int8, the ends of its range, -1
\* (not available) and 0 included, and no valid voltage or current
PercentValues == {-128, -1, 0, 50, 100, 127}
PercentMsgs ==
    {SysStatus(p, UINT16_MAX, -1) : p \in PercentValues}
        \cup {BatteryStatus(<<UINT16_MAX>>, -1, p) : p \in PercentValues}

BatteryNext ==
    \/ FirstConnect
    \/ TelemetryRecv
    \/ \E m \in PercentMsgs : VehicleStream(m)

SpecBattery == Init /\ [][BatteryNext]_vars

\* The telemetry loop fed two different messages of each of the position, attitude
\* and heartbeat types, battery reports of both types and a STATUSTEXT, in any order
FrameMsgs ==
    {GlobalPositionInt(370000000, -1220000000, 10000),
     GlobalPositionInt(380000000, -1210000000, 20000),
     Attitude(1, 0, -1), Attitude(0, 2, 1),
     SysStatus(50, 12000, 150), BatteryStatus(<<4000, 4000, 4000>>, 200, 80),
     StatusText}
    \cup HeartbeatMsgs

FrameNext ==
    \/ FirstConnect
    \/ TelemetryRecv
    \/ \E m \in FrameMsgs : VehicleStream(m)

SpecFrame == Init /\ [][FrameNext]_vars

\* The mission planner tab starting uploads one after the other on a link that stays
\* up, the vehicle following the mission protocol
PlannerNext ==
    \/ FirstConnect
    \/ TelemetryRecv
    \/ \E w \in UniformLists, t \in BOOLEAN, l \in BOOLEAN : PlannerUpload(1, w, t, l)
    \/ UploaderRecv(1)
    \/ outbox = <<>> /\ UploaderTimeout(1)
    \/ VehicleReply

SpecPlanner == Init /\ [][PlannerNext]_vars

\* The telemetry loop with a client: its slot is connected to telemetry_updated, it
\* calls get_telemetry(), and it writes into the dictionaries it was handed.  The
\* vehicle transmits a message of each telemetry type and a STATUSTEXT, in any order
InitListening ==
    \E rd \in {[NoReader EXCEPT !.listening = TRUE]} :
        /\ connected = FALSE
        /\ running = FALSE
        /\ connection = 0
        /\ openConns = {}
        /\ loops = [t \in Threads |-> NoLoop]
        /\ telemetry_thread = 0
        /\ nConnects = 0
        /\ cx = IdleCall
        /\ loopErrors = 0
        /\ telemetry = InitTelemetry
        /\ hasBatteryStatus = FALSE
        /\ fed = {}
        /\ reader = rd
        /\ ordered = [t |-> InitTelemetry, has |-> FALSE]
        /\ prefixes = {InitTelemetry}
        /\ inbox = <<>>
        /\ delivered = 0
        /\ outbox = <<>>
        /\ vehicleCount = 0
        /\ sensor = NoSensor
        /\ up = [u \in Uploaders |-> InitUploader]
        /\ tab = InitTab

ReaderMsgs ==
    {GlobalPositionInt(370000000, -1220000000, 10000), Attitude(1, 0, -1),
     SysStatus(50, 12000, 150), SysStatus(-1, UINT16_MAX, -1),
     BatteryStatus(<<4000, 4000, 4000>>, 200, 80),
     Heartbeat(81 + MAV_MODE_FLAG_SAFETY_ARMED, 3), StatusText}

ReaderNext ==
    \/ FirstConnect
    \/ TelemetryRecv
    \/ ReaderGet
    \/ \E which \in {"heard", "got"} : ReaderModify(which, "battery", 1)
    \/ \E which \in {"heard", "got"} : ReaderModify(which, "mode", "Edited")
    \/ \E m \in ReaderMsgs : VehicleStream(m)

SpecReader == InitListening /\ [][ReaderNext]_vars

\* SpecEmpty: upload_mission called with an empty waypoint list and no takeoff nor
\* return-to-launch item, on a link that stays up, with a vehicle that answers a
\* protocol message with any handshake reply, a MISSION_COUNT of 0 included, or with
\* none
EmptyReplies == HandshakeMsgs \cup {MissionCount(0)}

EmptyNext ==
    \/ FirstConnect
    \/ TelemetryRecv
    \/ UploadStart(1, <<>>, FALSE, FALSE)
    \/ UploaderRecv(1)
    \/ UploaderTimeout(1)
    \/ VehicleRead
    \/ \E m \in EmptyReplies : VehicleAnswer(m)
    \/ \E m \in PositionMsgs : VehicleSend(m)

SpecEmpty == Init /\ [][EmptyNext]_vars

\* upload_mission_to_drone driven with lists of entries as the second drone's tab
\* builds them (a TAKEOFF entry, WAYPOINT entries, an RTL entry), with an entry that
\* has no command or altitude and an entry of another command, in any order, and
\* with the manager or None; the vehicle answers anything of the handshake
MaxEntries == 2
EntryValues ==
    {[command |-> "TAKEOFF", lat |-> 37000, lon |-> -122000, alt |-> 10],
     [command |-> "WAYPOINT", lat |-> 37000, lon |-> -122000, alt |-> 10],
     [lat |-> 37001, lon |-> -122000],
     [command |-> "RTL"],
     [command |-> "LAND"]}
EntryLists == UNION {[1..n -> EntryValues] : n \in 0..MaxEntries}
ManagerArgs == {"None", "manager"}

HelperNext ==
    \/ FirstConnect
    \/ TelemetryRecv
    \/ \E manager \in ManagerArgs, entries \in EntryLists : HelperCall(1, manager, entries)
    \/ UploaderRecv(1)
    \/ UploaderTimeout(1)
    \/ VehicleRead
    \/ \E m \in HandshakeMsgs : VehicleAnswer(m)

SpecHelper == Init /\ [][HelperNext]_vars

\* SpecTab: the second-drone tab, its button pressed again and again, every attempt of
\* connect succeeding or raising, and the telemetry loop of the tab's manager
TabNext ==
    \/ ToggleConnection
    \/ AttemptOk
    \/ AttemptFail
    \/ TelemetryRecv
    \/ \E m \in LinkTelemetry : VehicleSend(m)

SpecTab == Init /\ [][TabNext]_vars

----------------------------------------------------------------------------
\* Properties

Awaiting(u) == up[u].pc \in AwaitStates
LoopReceiving == (\E t \in Threads : Receiving(t)) /\ connection \in openConns
Flag(b) == IF b THEN 1 ELSE 0
ExpectedLength(r) == Len(r.waypoints) + Flag(r.add_takeoff) + Flag(r.add_rtl)

\* C1: while an upload is waiting for a reply, a telemetry-bearing message is never
\* consumed by the uploader's wait and a handshake reply is never consumed by the
\* telemetry loop.
C1_NoMisrouting ==
    [][(\E v \in Uploaders : Awaiting(v)) =>
          /\ \A u \in Uploaders :
                UploaderRecv(u) => Head(inbox).type \notin TelemetryTypes
          /\ TelemetryRecv => Head(inbox).type \notin HandshakeTypes]_vars

\* C2: never are the telemetry loop and an upload thread both receiving from the
\* manager's connection.
C2_SingleReceiver ==
    \A u \in Uploaders : ~(Awaiting(u) /\ up[u].conn = connection /\ LoopReceiving)

\* C3: at most one upload handshake is in progress on a manager at any time.
C3_OneHandshake == Cardinality({u \in Uploaders : Awaiting(u)}) <= 1

\* C4: against a vehicle that follows the protocol and replies in time, every
\* upload_mission call made while connected returns success and reports
\* N + add_takeoff + add_rtl items.
C4_RoundTrip ==
    \A u \in Uploaders :
        up[u].pc = "done" /\ up[u].result.message # "Not connected to drone" =>
            /\ up[u].result.success
            /\ up[u].result.n = ExpectedLength(up[u])

\* C5: a wait for the clear acknowledgement that ends otherwise than by an accepted
\* MISSION_ACK (no reply, or an ack with another status) makes upload_mission return
\* the failure "Failed to clear existing mission"; nothing more is sent and
\* manager.connected keeps its value.
C5_ClearFailure ==
    [][\A u \in Uploaders :
          (/\ up[u].pc = "await_clear_ack"
           /\ up'[u] # up[u]
           /\ ~(/\ inbox # <<>>
                /\ Head(inbox) = MissionAck(MAV_MISSION_ACCEPTED)
                /\ inbox' = Tail(inbox)))
          => /\ up'[u].pc = "done"
             /\ ~up'[u].result.success
             /\ up'[u].result.message = "Failed to clear existing mission"
             /\ up'[u].out = up[u].out
             /\ outbox' = outbox
             /\ connected' = connected]_vars

\* C5 witness: an upload has failed at the clear step on an ack that was not
\* accepted, and the manager is still connected.
C5_Witness ==
    /\ up[1].pc = "done"
    /\ up[1].result.message = "Failed to clear existing mission"
    /\ up[1].msg = MissionAck(MAV_MISSION_ERROR)
    /\ connected

\* C6: the detailed-battery flag, once set by a BATTERY_STATUS, stays set, and while
\* it is set a SYS_STATUS processed by the telemetry loop changes none of voltage,
\* current and battery percentage.
C6_DetailedBatteryWins ==
    [][/\ hasBatteryStatus => hasBatteryStatus'
       /\ (TelemetryRecv /\ Head(inbox).type = "BATTERY_STATUS") => hasBatteryStatus'
       /\ (TelemetryRecv /\ hasBatteryStatus /\ Head(inbox).type = "SYS_STATUS")
            => /\ telemetry'.voltage = telemetry.voltage
               /\ telemetry'.current = telemetry.current
               /\ telemetry'.battery = telemetry.battery]_vars

\* C6 witness: a BATTERY_STATUS has been processed, and the running loop is about to
\* read a SYS_STATUS whose valid voltage, current and percentage all differ from
\* the published ones.
C6_Witness ==
    /\ hasBatteryStatus
    /\ LoopReceiving
    /\ inbox # <<>>
    /\ Head(inbox) = SysStatus(50, 12000, 150)
    /\ telemetry.voltage \notin {0, 12000000}
    /\ telemetry.current \notin {0, 1500000}
    /\ telemetry.battery # 50

\* C7: the built mission has N + add_takeoff + add_rtl items, with both flags it
\* starts with Takeoff and ends with ReturnToLaunch, and an item is sent with
\* current = 1 exactly when its sequence number is 0.
C7_MissionShape ==
    /\ \A u \in Uploaders :
          (up[u].pc # "idle" /\ up[u].result.message # "Not connected to drone") =>
              /\ Len(up[u].items) = ExpectedLength(up[u])
              /\ (up[u].add_takeoff /\ up[u].add_rtl) =>
                    /\ up[u].items[1].command = MAV_CMD_NAV_TAKEOFF
                    /\ up[u].items[Len(up[u].items)].command = MAV_CMD_NAV_RETURN_TO_LAUNCH
    /\ \A u \in Uploaders : \A i \in 1..Len(up[u].out) :
          up[u].out[i].type = "MISSION_ITEM" =>
              /\ up[u].out[i].current \in {0, 1}
              /\ up[u].out[i].current = 1 <=> up[u].out[i].seq = 0

\* C7 witness: a mission of two waypoints with both flags has been sent up to its
\* last item, sequence 3.
C7_Witness ==
    /\ Len(up[1].waypoints) = 2 /\ up[1].add_takeoff /\ up[1].add_rtl
    /\ \E i \in 1..Len(up[1].out) :
          up[1].out[i].type = "MISSION_ITEM" /\ up[1].out[i].seq = 3

\* C8: a MISSION_REQUEST received after item seq that names an index already sent
\* makes the uploader send the item of that index again and stay at that index.
C8_ResendOnRerequest ==
    [][\A u \in Uploaders :
          (/\ up[u].pc = "await_item_reply"
           /\ ExpectedType(up[u]) = "MISSION_REQUEST"
           /\ UploaderRecv(u)
           /\ Head(inbox).type = "MISSION_REQUEST"
           /\ Head(inbox).seq <= up[u].seq)
          => /\ up'[u].pc = "await_item_reply"
             /\ up'[u].seq = Head(inbox).seq
             /\ up'[u].out = Append(up[u].out, ItemMsg(u, Head(inbox).seq,
                                                       up[u].items[Head(inbox).seq + 1]))]_vars

\* C9: a MISSION_ACK received after the last item with a status other than accepted
\* makes upload_mission return failure.
C9_FinalAckAccepted ==
    [][\A u \in Uploaders :
          (/\ up[u].pc = "await_item_reply"
           /\ ExpectedType(up[u]) = "MISSION_ACK"
           /\ UploaderRecv(u)
           /\ Head(inbox).type = "MISSION_ACK"
           /\ Head(inbox).status # MAV_MISSION_ACCEPTED)
          => /\ up'[u].pc = "done"
             /\ ~up'[u].result.success]_vars

\* C10: in the verify step, upload_mission returns success if and only if the
\* transport delivers a MISSION_COUNT whose count is the number of items built;
\* otherwise it returns the failure "Mission verification failed".
C10_VerifyIff ==
    [][\A u \in Uploaders :
          LET CountDelivered ==
                  /\ inbox # <<>>
                  /\ Head(inbox) = MissionCount(Len(up[u].items))
                  /\ inbox' = Tail(inbox)
          IN  (up[u].pc = "await_count" /\ ConnOpen(u)) =>
                /\ CountDelivered => (up'[u].pc = "done" /\ up'[u].result.success)
                /\ (up'[u].pc = "done" /\ up'[u].result.success) =>
                      (CountDelivered /\ up'[u].result.n = Len(up[u].items))
                /\ (up'[u].pc = "done" /\ ~up'[u].result.success) =>
                      up'[u].result.message = "Mission verification failed"]_vars

\* C11: the step in which a handshake wait fails writes no protocol message and ends
\* the call with a failure; a returned call writes nothing more, and the next call of
\* the thread, made while connected with the port open, starts over: its items are
\* built anew and the first and only message it has written when it reaches its first
\* wait is MISSION_CLEAR_ALL.
C11_AbortAndRestart ==
    [][\A u \in Uploaders :
          /\ (Awaiting(u) /\ up'[u].pc = "done" /\ ~up'[u].result.success)
                => (up'[u].out = up[u].out /\ outbox' = outbox)
          /\ (up[u].pc = "done" /\ up'[u] # up[u])
                => /\ up'[u].calls = up[u].calls + 1
                   /\ (connected /\ connection \in openConns)
                         => /\ up'[u].pc = "await_clear_ack"
                            /\ up'[u].out = <<ClearAllMsg(u)>>
                            /\ outbox' = Append(outbox, ClearAllMsg(u))
                            /\ up'[u].seq = 0
                   /\ ~(connected /\ connection \in openConns)
                         => (up'[u].pc = "done" /\ ~up'[u].result.success
                             /\ up'[u].out = <<>> /\ outbox' = outbox)]_vars

\* C11 witness: a second call waits for its clear acknowledgement while item 0 of the
\* first call is still unread by the vehicle: the first call got as far as the item
\* step, and returned without the replies a success takes.
C11_Witness ==
    /\ up[1].calls = 2
    /\ up[1].pc = "await_clear_ack"
    /\ up[1].out = <<ClearAllMsg(1)>>
    /\ outbox # <<>>
    /\ Head(outbox).type = "MISSION_ITEM"

\* C12: every upload_mission call returns: a call that is waiting for a reply is
\* eventually done, whatever the vehicle sends or omits.
C12_UploadReturns == \A u \in Uploaders : Awaiting(u) ~> up[u].pc = "done"

\* C12 witness: a call went through every step and returned because its last wait,
\* for the MISSION_COUNT, timed out.
C12_Witness ==
    /\ up[1].pc = "done"
    /\ up[1].result.message = "Mission verification failed"
    /\ up[1].msg = NoMsg
    /\ ConnOpen(1)

\* C13: connect makes at most retries attempts.  The first attempt that succeeds ends
\* the call with success.  A failed attempt that is not the last is followed by
\* another and reports nothing: no connection_status_changed, connected untouched.
\* The last failed attempt sets connected = False, emits connection_status_changed
\* (False) once and returns a failure with a message.
C13_RetryContract ==
    [][/\ cx'.attempt <= cx'.retries
       /\ AttemptOk =>
             /\ cx'.pc = "idle"
             /\ cx'.result.success
             /\ cx'.emitted = <<TRUE>>
             /\ connected'
       /\ (AttemptFail /\ cx.attempt + 1 < cx.retries) =>
             /\ cx'.pc = "attempt"
             /\ cx'.emitted = <<>>
             /\ cx'.result = NoConnectResult
             /\ connected' = connected
       /\ (AttemptFail /\ cx.attempt + 1 = cx.retries) =>
             /\ cx'.pc = "idle"
             /\ ~cx'.result.success
             /\ cx'.result.message # ""
             /\ cx'.emitted = <<FALSE>>
             /\ ~connected']_vars

\* C13 witness: connect(retries = 2) has returned its failure after two failed
\* attempts, having emitted connection_status_changed(False) once.
C13_Witness ==
    /\ cx.pc = "idle"
    /\ cx.retries = 2
    /\ cx.attempt = 2
    /\ ~cx.result.success
    /\ cx.emitted = <<FALSE>>
    /\ ~connected

\* C14: connect has returned success only if its heartbeat wait returned a HEARTBEAT.
C14_HeartbeatRequired == cx.result.success => cx.heartbeat

\* C15: disconnect can be called in every state; after it running and connected are
\* False, connection is None and the port the manager held is closed; called again
\* right after, it changes nothing.
C15_DisconnectIdempotent ==
    /\ [](ENABLED Disconnect)
    /\ []((~running /\ ~connected /\ connection = 0) => ~ENABLED <<Disconnect>>_vars)
    /\ [][Disconnect => /\ ~running' /\ ~connected' /\ connection' = 0
                        /\ connection \notin openConns']_vars

\* C15 witness: the manager was connected and has been disconnected; its port is
\* closed and the thread it joined has ended.
C15_Witness ==
    /\ nConnects > 0
    /\ ~running /\ ~connected /\ connection = 0
    /\ openConns = {}
    /\ telemetry_thread # 0
    /\ ~loops[telemetry_thread].live

\* C16: when recv_match raises in the telemetry loop, the manager becomes
\* disconnected and the loop stops receiving.
C16_ErrorDisconnects ==
    [][TelemetryRecvError => (~connected' /\ \A t \in Threads : ~Receiving(t)')]_vars

C20_FreshStoreOnReconnect ==
    [][(ConnectOk /\ connection = 0 /\ nConnects > 0)
          => (telemetry' = InitTelemetry /\ ~hasBatteryStatus')]_vars

Abs(x) == IF x < 0 THEN -x ELSE x
\* x lies between a and b, the ends included
Between(a, x, b) == (a <= x /\ x <= b) \/ (b <= x /\ x <= a)
\* The distance below which alpha * d rounds to nothing in the units of the store
Resolution == 100 \div EMA_ALPHA_PERCENT

\* C21: fed the same raw value r again and again, the published voltage and the
\* published current each move toward r without passing it (the new value lies
\* between the old one and r), and each ends up, and stays, within the resolution
\* of the store of r.
C21_EmaApproach ==
    /\ [][TelemetryRecv =>
             /\ Between(telemetry.voltage, telemetry'.voltage, RawVoltage(Sample(sensor)))
             /\ Between(telemetry.current, telemetry'.current, RawCurrent(Sample(sensor)))]_vars
    /\ <>[](/\ Abs(RawVoltage(Sample(sensor)) - telemetry.voltage) < Resolution
            /\ Abs(RawCurrent(Sample(sensor)) - telemetry.current) < Resolution)

\* C21 witness: the voltage has come up from 11 V to within the resolution of the
\* 12.5 V the sensor holds, and the current down from 2 A to within the resolution of
\* 0 A, neither having reached or passed its raw value.
C21_Witness ==
    /\ sensor.mv = 12500 /\ sensor.ca = 0
    /\ 0 < RawVoltage(Sample(sensor)) - telemetry.voltage
    /\ RawVoltage(Sample(sensor)) - telemetry.voltage < Resolution
    /\ 0 < telemetry.current
    /\ telemetry.current < Resolution

\* C29: of the valid samples of voltage, and of current, the loop processes, the first
\* since the store was created is published as it is, and every later one, s, moves
\* the published value p to p + 0.04 * (s - p).
C29_FirstSampleVerbatim ==
    [][TelemetryRecv =>
          LET msg == Head(inbox)
              sampled == SampledBy(hasBatteryStatus, msg)
              Smoothed(first, p, raw) == IF first THEN raw ELSE p + Scaled(raw - p)
          IN  /\ "voltage" \in sampled =>
                    telemetry'.voltage =
                        Smoothed("voltage" \notin fed, telemetry.voltage, RawVoltage(msg))
              /\ "current" \in sampled =>
                    telemetry'.current =
                        Smoothed("current" \notin fed, telemetry.current, RawCurrent(msg))]_vars

\* C22: the progress notifications of a call are, in this order and each once,
\* clearing, count, waypoint 1 to M, verifying, success, or a beginning of that list;
\* the whole list is emitted exactly by the calls that return success; a call returns
\* one result, and once it has returned its notifications and its result stay as
\* they are.
C22_ProgressInOrder ==
    /\ [](LET Expected(total) ==
                  <<ClearingNote, CountNote(total)>>
                      \o [i \in 1..total |->
                             [text |-> "Uploading waypoint", n |-> i, of |-> total]]
                      \o <<VerifyingNote, SuccessNote>>
              Started(u) ==
                  up[u].pc # "idle" /\ up[u].result.message # "Not connected to drone"
          IN  \A u \in Uploaders : Started(u) =>
                 /\ Len(up[u].progress) <= Len(up[u].items) + 4
                 /\ up[u].progress = SubSeq(Expected(Len(up[u].items)), 1, Len(up[u].progress))
                 /\ (up[u].pc = "done" /\ up[u].result.success)
                        <=> up[u].progress = Expected(Len(up[u].items))
                 /\ up[u].pc # "done" => up[u].result = NoResult)
    /\ [][\A u \in Uploaders :
             /\ (up[u].pc = "done" /\ up'[u].calls = up[u].calls) => up'[u] = up[u]
             /\ (Awaiting(u) /\ up'[u] # up[u]) =>
                    /\ Len(up'[u].progress) >= Len(up[u].progress)
                    /\ SubSeq(up'[u].progress, 1, Len(up[u].progress)) = up[u].progress]_vars

\* C22 witness: a mission of two items has been uploaded with success; the call has
\* emitted its six notifications, the fourth of them for waypoint 2 of 2.
C22_Witness ==
    /\ up[1].pc = "done"
    /\ up[1].result.success
    /\ Len(up[1].items) = 2
    /\ Len(up[1].progress) = 6
    /\ up[1].progress[4] = WaypointNote(1, 2)

\* C23: what a call has written is a beginning of: clear-all, count M, item 0 to
\* item M-1 (each with its 0-based index and autocontinue = 1), request-list.  A
\* message but the clear-all is written in the step that receives the reply it
\* follows: the count an accepted MISSION_ACK, an item a MISSION_REQUEST, the
\* request-list the MISSION_ACK that follows item M-1 (with M = 0 there is no item, and
\* the request-list follows the MISSION_REQUEST that answers the count).
C23_SendOrder ==
    /\ [](\A u \in Uploaders :
             LET out == up[u].out
                 M == Len(up[u].items)
             IN  /\ Len(out) <= M + 3
                 /\ \A i \in 1..Len(out) :
                       /\ i = 1 => out[i] = ClearAllMsg(u)
                       /\ i = 2 => out[i] = CountMsg(u, M)
                       /\ (3 <= i /\ i <= M + 2) =>
                             /\ out[i].type = "MISSION_ITEM"
                             /\ out[i].seq = i - 3
                             /\ out[i].autocontinue = 1
                             /\ out[i].item = up[u].items[i - 2]
                       /\ i = M + 3 => out[i] = RequestListMsg(u))
    /\ [][\A u \in Uploaders :
             (up'[u].calls = up[u].calls /\ up'[u].out # up[u].out) =>
                 LET sent == up'[u].out[Len(up'[u].out)]
                 IN  /\ up'[u].out = Append(up[u].out, sent)
                     /\ inbox # <<>>
                     /\ inbox' = Tail(inbox)
                     /\ sent.type = "MISSION_COUNT" =>
                            Head(inbox) = MissionAck(MAV_MISSION_ACCEPTED)
                     /\ sent.type = "MISSION_ITEM" => Head(inbox).type = "MISSION_REQUEST"
                     /\ sent.type = "MISSION_REQUEST_LIST" =>
                            Head(inbox).type = IF Len(up[u].items) > 0 THEN "MISSION_ACK"
                                               ELSE "MISSION_REQUEST"]_vars

\* C23 witness: a call with two items has written its five messages and waits for
\* the MISSION_COUNT.
C23_Witness ==
    /\ up[1].pc = "await_count"
    /\ Len(up[1].items) = 2
    /\ Len(up[1].out) = 5
    /\ up[1].out[4].seq = 1
    /\ up[1].msg.type = "MISSION_ACK"

\* C24: at any time at most one telemetry loop thread of the manager is running,
\* whatever the sequence of connect and disconnect calls, connect on a connected
\* manager included.
C24_OneLoopThread == Cardinality({t \in Threads : loops[t].live}) <= 1

\* C25: whatever retries is, connect returns a (success, message) pair; with
\* retries = 0 the pair is a failure.
C25_ConnectReturnsPair ==
    [][(cx' # cx /\ cx'.pc = "idle") =>
          /\ cx'.value = "pair"
          /\ cx'.retries = 0 => (~cx'.result.success /\ cx'.result.message # "")]_vars

\* C27: a failed attempt leaves open no port it has opened, and leaves in
\* manager.connection no connection object it has created.
C27_FailedAttemptCloses ==
    [][AttemptFail =>
          /\ openConns' \subseteq openConns
          /\ connection' \notin (nConnects + 1)..nConnects']_vars

\* C26: the second-drone tab becomes connected, and shows 'Drone 2 Connected', only
\* when the connect it called has returned success; when that connect returns a
\* failure the tab stays not connected.
C26_TabConnectedOnSuccess ==
    [][/\ (~tab.is_connected /\ tab'.is_connected) => cx'.result.success
       /\ (tab.status # "Drone 2 Connected" /\ tab'.status = "Drone 2 Connected")
              => cx'.result.success
       /\ (tab.pc = "connecting" /\ tab'.pc = "idle" /\ ~cx'.result.success)
              => ~tab'.is_connected]_vars

\* C28: no upload_mission call returns success for a mission of zero items (an empty
\* waypoint list with add_takeoff = add_rtl = False), whatever the vehicle replies.
C28_EmptyMissionFails ==
    \A u \in Uploaders :
        (up[u].pc = "done" /\ up[u].result.success) => Len(up[u].items) > 0

\* C30: a call that fails names the step that failed: the clear step (no accepted
\* MISSION_ACK, or the port closed), the count step (no MISSION_REQUEST after the
\* count), the item step with the 0-based index of the item whose reply was missing,
\* or the verify step; a call made while not connected fails with 'Not connected to
\* drone' before any step.
C30_FailureNamesStep ==
    [][\A u \in Uploaders :
          /\ (Awaiting(u) /\ up'[u].pc = "done" /\ ~up'[u].result.success) =>
                /\ up[u].pc = "await_clear_ack" =>
                       up'[u].result.message = "Failed to clear existing mission"
                /\ up[u].pc = "await_first_request" =>
                       up'[u].result.message = "Failed to send mission count"
                /\ up[u].pc = "await_item_reply" =>
                       /\ up'[u].result.message = "Failed to upload waypoint"
                       /\ up'[u].result.n = up[u].seq
                       /\ up[u].out[Len(up[u].out)].type = "MISSION_ITEM"
                       /\ up[u].out[Len(up[u].out)].seq = up[u].seq
                /\ up[u].pc = "await_count" =>
                       up'[u].result.message = "Mission verification failed"
          /\ (~Awaiting(u) /\ up'[u] # up[u] /\ up'[u].pc = "done") =>
                /\ ~up'[u].result.success
                /\ up'[u].result.message =
                       IF connected THEN "Failed to clear existing mission"
                       ELSE "Not connected to drone"]_vars

\* C30 witness: a call has failed with 'Failed to upload waypoint 1': it had written
\* item 1 and no reply to it came.
C30_Witness ==
    /\ up[1].pc = "done"
    /\ up[1].result.message = "Failed to upload waypoint"
    /\ up[1].result.n = 1
    /\ up[1].msg = NoMsg
    /\ up[1].out[Len(up[1].out)].seq = 1

\* C31: an upload_mission call made while manager.connected is False returns
\* (False, 'Not connected to drone'), having written no protocol message and emitted
\* no progress notification.
C31_NotConnectedReturns ==
    [][\A u \in Uploaders :
          (up'[u].calls = up[u].calls + 1 /\ ~connected) =>
              /\ up'[u].pc = "done"
              /\ ~up'[u].result.success
              /\ up'[u].result.message = "Not connected to drone"
              /\ up'[u].out = <<>>
              /\ up'[u].progress = <<>>
              /\ outbox' = outbox
              /\ inbox' = inbox]_vars

\* C31 witness: the call was made after a disconnect, on a manager that had been
\* connected, and has returned 'Not connected to drone'.
C31_Witness ==
    /\ nConnects > 0
    /\ ~connected
    /\ up[1].pc = "done"
    /\ up[1].calls = 1
    /\ up[1].result.message = "Not connected to drone"
    /\ up[1].out = <<>>

\* C32: in every state the battery percentage of the store is within 0..100,
\* whatever SYS_STATUS and BATTERY_STATUS messages were received, those with
\* battery_remaining -1 or outside 0..100 included.
C32_BatteryInRange == telemetry.battery \in 0..100 /\ GetTelemetry.battery \in 0..100

\* C32 witness: the store holds 100 after a battery_remaining of 127 (the only
\* message that can give 100 once BATTERY_STATUS has been seen is one of 100 or 127),
\* and the loop is about to read a BATTERY_STATUS whose battery_remaining is -128.
C32_Witness ==
    /\ LoopReceiving
    /\ hasBatteryStatus
    /\ telemetry.battery = 100
    /\ inbox # <<>>
    /\ Head(inbox) = BatteryStatus(<<UINT16_MAX>>, -1, -128)

\* C33: of the items a call has built, those after the optional Takeoff and before
\* the optional ReturnToLaunch are Waypoint items, one per input waypoint and in the
\* input order, with x, y, z the waypoint's lat, lon, alt, acceptance radius 2 and
\* pass-through 0; Takeoff has x = y = 0 and z = 10, ReturnToLaunch x = y = 0; the
\* waypoint list of the call stays as it was passed.
C33_ItemsFollowInput ==
    /\ [](\A u \in Uploaders :
             (up[u].pc # "idle" /\ up[u].result.message # "Not connected to drone") =>
                 LET r == up[u]
                     off == Flag(r.add_takeoff)
                 IN  /\ \A i \in 1..Len(r.waypoints) :
                           /\ r.items[off + i].command = MAV_CMD_NAV_WAYPOINT
                           /\ r.items[off + i].x = r.waypoints[i][1]
                           /\ r.items[off + i].y = r.waypoints[i][2]
                           /\ r.items[off + i].z = r.waypoints[i][3]
                           /\ r.items[off + i].param2 = 2
                           /\ r.items[off + i].param3 = 0
                     /\ r.add_takeoff =>
                           /\ r.items[1].command = MAV_CMD_NAV_TAKEOFF
                           /\ r.items[1].x = 0 /\ r.items[1].y = 0 /\ r.items[1].z = 10
                     /\ r.add_rtl =>
                           /\ r.items[Len(r.items)].command = MAV_CMD_NAV_RETURN_TO_LAUNCH
                           /\ r.items[Len(r.items)].x = 0 /\ r.items[Len(r.items)].y = 0
                     /\ Len(r.items) = off + Len(r.waypoints) + Flag(r.add_rtl))
    /\ [][\A u \in Uploaders :
             up'[u].calls = up[u].calls => up'[u].waypoints = up[u].waypoints]_vars

\* C33 witness: a call with two different waypoints, Takeoff and ReturnToLaunch has
\* built its four items and written the second waypoint as item 2.
C33_Witness ==
    /\ up[1].waypoints = <<(<<37000, -122000, 10>>), (<<37001, -122000, 10>>)>>
    /\ up[1].add_takeoff /\ up[1].add_rtl
    /\ Len(up[1].out) >= 5
    /\ up[1].out[5].item.x = 37001

\* C34: upload_mission_to_drone returns False without sending anything when the
\* manager is None or the list of entries is empty; otherwise it calls
\* upload_mission with the WAYPOINT entries in their order as (lat, lon, alt),
\* with add_takeoff exactly when the list has a TAKEOFF entry and add_rtl exactly
\* when it has an RTL entry, and returns the success flag of that call.
C34_HelperPassesEntries ==
    /\ [](\A u \in Uploaders :
            LET r == up[u]
                isWp(wp) == "command" \notin DOMAIN wp \/ wp.command = "WAYPOINT"
                has(c) == \E i \in 1..Len(r.entries) :
                              "command" \in DOMAIN r.entries[i] /\ r.entries[i].command = c
                wps == SelectSeq(r.entries, isWp)
            IN  r.helper # "no" =>
                    IF r.manager = "None" \/ r.entries = <<>>
                    THEN r.helper = "returned" /\ ~r.ret /\ r.calls = 0 /\ r.out = <<>>
                    ELSE /\ r.calls = 1
                         /\ Len(r.waypoints) = Len(wps)
                         /\ \A i \in 1..Len(wps) :
                                /\ r.waypoints[i][1] = wps[i].lat
                                /\ r.waypoints[i][2] = wps[i].lon
                                /\ "alt" \in DOMAIN wps[i] => r.waypoints[i][3] = wps[i].alt
                         /\ r.add_takeoff <=> has("TAKEOFF")
                         /\ r.add_rtl <=> has("RTL")
                         /\ r.helper = "returned" <=> r.pc = "done"
                         /\ r.helper = "returned" => r.ret = r.result.success)
    /\ [][\A u \in Uploaders :
            (up[u].helper = "no" /\ up'[u].helper # "no"
                /\ (up'[u].manager = "None" \/ up'[u].entries = <<>>)) =>
                    outbox' = outbox]_vars

\* upload_mission_to_drone got an entry without command and altitude followed by a
\* TAKEOFF entry, and returned True after the upload of the two items succeeded
C34_Witness ==
    /\ up[1].helper = "returned"
    /\ up[1].ret
    /\ Len(up[1].entries) = 2
    /\ EntryCommand(up[1].entries[2]) = "TAKEOFF"
    /\ up[1].waypoints = <<<<37001, -122000, 30>>>>
    /\ up[1].add_takeoff /\ ~up[1].add_rtl

\* C35: a telemetry message changes only the fields of its own type and sets them
\* to the values of the message, not to a smoothed value: GLOBAL_POSITION_INT
\* changes exactly lat, lon and alt, ATTITUDE exactly pitch, roll and yaw, HEARTBEAT
\* exactly mode and armed; SYS_STATUS and BATTERY_STATUS change nothing but battery,
\* voltage and current.
C35_OwnFieldsOnly ==
    [][(inbox # <<>> /\ inbox' = Tail(inbox)) =>
        LET msg == Head(inbox)
            Same(fields) == \A f \in fields : telemetry'[f] = telemetry[f]
            All == DOMAIN InitTelemetry
        IN  /\ msg.type = "GLOBAL_POSITION_INT" =>
                /\ telemetry'.lat = msg.lat \div 10000000
                /\ telemetry'.lon = msg.lon \div 10000000
                /\ telemetry'.alt = msg.relative_alt \div 1000
                /\ Same(All \ {"lat", "lon", "alt"})
            /\ msg.type = "ATTITUDE" =>
                /\ telemetry'.pitch = msg.pitch * 572958
                /\ telemetry'.roll = msg.roll * 572958
                /\ telemetry'.yaw = msg.yaw * 572958
                /\ Same(All \ {"pitch", "roll", "yaw"})
            /\ msg.type = "HEARTBEAT" =>
                /\ telemetry'.armed = (msg.base_mode >= MAV_MODE_FLAG_SAFETY_ARMED)
                /\ telemetry'.mode = (IF msg.custom_mode = 0 THEN "STABILIZE" ELSE "AUTO")
                /\ Same(All \ {"mode", "armed"})
            /\ msg.type \in {"SYS_STATUS", "BATTERY_STATUS"} =>
                Same(All \ {"battery", "voltage", "current"})]_vars

\* A second position report has replaced the first one, which had come after an
\* attitude report and a heartbeat that are still in the store
C35_Witness ==
    /\ telemetry.lat = 38 /\ telemetry.lon = -121 /\ telemetry.alt = 20
    /\ telemetry.pitch = 572958
    /\ telemetry.mode = "AUTO" /\ telemetry.armed
    /\ \E p \in prefixes : p.lat = 37 /\ p.pitch = 572958 /\ p.mode = "AUTO"

\* C36: a received message makes the loop emit telemetry_updated exactly when its
\* type is GLOBAL_POSITION_INT, ATTITUDE, SYS_STATUS, BATTERY_STATUS or HEARTBEAT;
\* then one notification is emitted and it carries the store as it is after the
\* update.  A message of another type leaves the store as it was and emits nothing.
C36_NotifiedPerMessage ==
    [][(inbox # <<>> /\ inbox' = Tail(inbox)) =>
        IF Head(inbox).type \in {"GLOBAL_POSITION_INT", "ATTITUDE", "SYS_STATUS",
                                 "BATTERY_STATUS", "HEARTBEAT"}
        THEN /\ Len(reader'.heard) = 1
             /\ reader'.heard[1].val = telemetry'
        ELSE /\ reader'.heard = <<>>
             /\ telemetry' = telemetry]_vars

\* Two battery reports have been received, the second one leaving the store as the
\* BATTERY_STATUS before it had made it, and the notification of the latest
\* iteration carries that store
C36_Witness ==
    /\ reader.listening
    /\ hasBatteryStatus
    /\ ordered.t = telemetry
    /\ Len(reader.heard) = 1
    /\ reader.heard[1].val = telemetry
    /\ telemetry.battery = 80
    /\ delivered = 2
    /\ inbox = <<>>
    /\ telemetry.lat = 0 /\ telemetry.pitch = 0 /\ telemetry.mode = "Unknown"

\* C38: a dictionary handed to a reader, by get_telemetry() or by telemetry_updated,
\* is a copy: writing into it changes neither the telemetry store nor the other
\* dictionary the reader was handed, and a dictionary handed out afterwards holds
\* the store, not what the reader wrote.
C38_SnapshotsAreCopies ==
    /\ [][inbox' = inbox => telemetry' = telemetry]_vars
    /\ [][(reader.got # <<>> /\ reader'.got # reader.got) =>
              reader'.heard = reader.heard]_vars
    /\ [][(inbox' = inbox /\ reader'.heard # reader.heard) =>
              reader'.got = reader.got]_vars
    /\ [][(reader.got = <<>> /\ reader'.got # <<>>) =>
              reader'.got[1].val = telemetry]_vars

\* The reader wrote into both dictionaries it holds; the store kept the values the
\* vehicle reported, and the two dictionaries differ from each other
C38_Witness ==
    /\ reader.got # <<>> /\ reader.heard # <<>>
    /\ reader.got[1].val.mode = "Edited"
    /\ reader.heard[1].val.battery = 1
    /\ reader.heard[1].val.mode = "AUTO"
    /\ telemetry.mode = "AUTO"
    /\ telemetry.battery = 80
    /\ reader.got[1].val.battery = 80

\* C37: in every upload started from the mission planner tab, each progress
\* notification the uploader emits is appended to the tab's status log exactly once,
\* however many uploads the tab has started before.
C37_ProgressLoggedOnce ==
    \A u \in Uploaders : up[u].slots > 0 => up[u].status_log = up[u].progress

====
